---- MODULE Spec2Model ----
(***************************************************************************)
(* The ingestion pipeline of dashboard.py: file discovery, the per-file    *)
(* loader (_load_one_file: read, column check, timestamp parsing, numeric  *)
(* coercion, sub-minute timestamp reconstruction, interpolation of HZ,     *)
(* source tagging), the aggregation loop of load_all_data, and the part of *)
(* main that consumes the Dataset.                                         *)
(*                                                                         *)
(* Values.  A float is an exact rational [nan, n, d] (d > 0, reduced);     *)
(* a datetime64[ns] is [nat, s, ns]: whole seconds since 2024-01-01        *)
(* 00:00:00 and the nanoseconds within the second (one 64-bit nanosecond   *)
(* count in pandas, split here because TLC's integers are 32 bits wide).   *)
(* A DataFrame is [columns, rows]: the set of column labels and the        *)
(* sequence of rows, each [idx, cells]: the row's index label and a        *)
(* function from column label to cell.                                     *)
(***************************************************************************)
EXTENDS Integers, Sequences, FiniteSets, TLC

VARIABLES
    dir,            \* the files of DATA_FOLDER
    pc,             \* where main is
    files,          \* load_all_data: the discovered files
    k,              \* load_all_data: position of the for loop in files
    loaded,         \* load_all_data: the list of per-file frames
    df,             \* main: the Dataset load_all_data returned
    selected_file,  \* main: the sidebar's selection
    display_df,     \* main: the filtered view
    colsRead        \* the columns of df main has read so far

vars == <<dir, pc, files, k, loaded, df, selected_file, display_df, colsRead>>

\* ------------------------------------------------------------------ bounds

\* Rows per file when only the timestamps vary (SpecTime).
MaxRowsT == 6
\* Rows per file when timestamps and HZ vary (SpecClean).
MaxRows == 4
\* Rows per file when every cell and the extra column vary (SpecRows).
MaxRowsW == 3
\* Rows of the file that is reordered (SpecOrder).
MaxRowsO == 4
\* Files in the directory (Spec).
MaxFiles == 3

\* ------------------------------------------------------------------ values

\* to_timedelta(..., unit='s') yields nanoseconds.
NsPerSecond == 1000000000
\* The factor of line 66: the seconds of the minute the samples are spread over.
SecondsPerMinute == 60

RECURSIVE Gcd(_, _)
Gcd(a, b) == IF b = 0 THEN a ELSE Gcd(b, a % b)

Abs(a) == IF a < 0 THEN -a ELSE a

NaN == [nan |-> TRUE, n |-> 0, d |-> 1]

\* The float n/d.
Num(n, d) ==
    LET g == Gcd(Abs(n), d)
    IN  [nan |-> FALSE, n |-> n \div g, d |-> d \div g]

NaT == [nat |-> TRUE, s |-> 0, ns |-> 0]

Stamp(s, ns) == [nat |-> FALSE, s |-> s, ns |-> ns]

\* a < b on datetimes that are not NaT.
TimeLess(a, b) == a.s < b.s \/ (a.s = b.s /\ a.ns < b.ns)

\* The cell of an object column that holds no value.
NoValue == "NaN"

\* ----------------------------------------------------------------- parsing

\* pd.to_datetime(cell, errors="coerce", dayfirst=True) on the cells the
\* model's files hold: a day-first date-time becomes its instant, anything
\* else NaT.
to_datetime(cell) ==
    CASE cell = "01/01/2024 00:00:00" -> Stamp(0, 0)
      [] cell = "01/01/2024 00:00:30" -> Stamp(30, 0)
      [] cell = "01/01/2024 00:01:00" -> Stamp(60, 0)
      [] cell = "02/01/2024 00:00:00" -> Stamp(86400, 0)
      [] OTHER -> NaT

\* pd.to_numeric(cell, errors="coerce") on the cells the model's files hold.
to_numeric(cell) ==
    CASE cell = "50.0" -> Num(50, 1)
      [] cell = "50.2" -> Num(251, 5)
      [] cell = "50.3" -> Num(503, 10)
      [] cell = "1.5" -> Num(3, 2)
      [] OTHER -> NaN

\* str.strip() on the column labels the model's files hold.
strip(label) ==
    CASE label = " STARTDATE" -> "STARTDATE"
      [] label = "HZ " -> "HZ"
      [] label = " HZ" -> "HZ"
      [] label = " VPM " -> "VPM"
      [] OTHER -> label

\* ------------------------------------------------------------------- files

\* Path.stem of a file of the data folder.
stem(path) == path.lead \o " Oscillation Data_" \o path.tag

\* What reading a file can end in besides a frame.
Raised == [columns |-> {"<exception>"}, rows |-> <<>>]

None == [columns |-> {"<None>"}, rows |-> <<>>]

\* pd.DataFrame()
EmptyFrame == [columns |-> {}, rows |-> <<>>]

\* df.empty
IsEmpty(fr) == fr.columns = {} \/ fr.rows = <<>>

\* pd.read_excel(path) / pd.read_csv(path): the file's table under a
\* RangeIndex, or an exception for a file that cannot be parsed.
read_table(f) ==
    IF f.corrupt THEN Raised
    ELSE [columns |-> f.header,
          rows |-> [p \in 1..Len(f.cells) |-> [idx |-> p - 1, cells |-> f.cells[p]]]]

\* str.lower() on the suffixes the model's files have.
lower(suffix) ==
    CASE suffix = ".CSV" -> ".csv"
      [] suffix = ".XLSX" -> ".xlsx"
      [] OTHER -> suffix

\* Lines 32-37: the reader is chosen by the lower-cased suffix.
ReadBySuffix(f) ==
    IF lower(f.path.suffix) \in {".xlsx", ".xls"} THEN read_table(f)
    ELSE IF lower(f.path.suffix) = ".csv" THEN read_table(f)
    ELSE None

\* The labels of fr that strip to label c.
RawLabels(fr, c) == {r \in fr.columns : strip(r) = c}

\* Line 40: df.columns = df.columns.str.strip().  A label two raw labels
\* strip to is duplicated; the cell kept for it here is never read, because
\* selecting a duplicated required column raises (see Duplicated).
StripColumns(fr) ==
    LET cols == {strip(r) : r \in fr.columns}
    IN  [columns |-> cols,
         rows |-> [p \in 1..Len(fr.rows) |->
                    [idx |-> fr.rows[p].idx,
                     cells |-> [c \in cols |->
                        fr.rows[p].cells[CHOOSE r \in fr.columns : strip(r) = c]]]]]

\* df[c] is a DataFrame, not a Series, when label c is duplicated:
\* pd.to_datetime and pd.to_numeric raise on it.
Duplicated(raw, c) == Cardinality(RawLabels(raw, c)) > 1

required == <<"STARTDATE", "HZ", "VPM">>

\* Line 44.
missing(fr) == SelectSeq(required, LAMBDA c : c \notin fr.columns)

\* df[c] = vals: fr with column c set, row by row, to the values vals.
Assign(fr, c, vals) ==
    [columns |-> fr.columns \cup {c},
     rows |-> [p \in 1..Len(fr.rows) |->
                [idx |-> fr.rows[p].idx,
                 cells |-> [x \in fr.columns \cup {c} |->
                    IF x = c THEN vals[p] ELSE fr.rows[p].cells[x]]]]]

\* The column c of fr as a sequence, in row order.
Column(fr, c) == [p \in 1..Len(fr.rows) |-> fr.rows[p].cells[c]]

\* Line 50.
ParseStartdate(fr) ==
    Assign(fr, "STARTDATE",
           [p \in 1..Len(fr.rows) |-> to_datetime(Column(fr, "STARTDATE")[p])])

\* dropna that gives up the whole table when one timestamp is NaT.
dropna_all_or_nothing(fr) ==
    [columns |-> fr.columns,
     rows |-> IF \E p \in 1..Len(fr.rows) : fr.rows[p].cells["STARTDATE"].nat
              THEN <<>> ELSE fr.rows]

\* Line 51: df.dropna(subset=["STARTDATE"]).
dropna(fr) ==
    [columns |-> fr.columns,
     rows |-> SelectSeq(fr.rows, LAMBDA r : ~r.cells["STARTDATE"].nat)]

\* Lines 57-58.
CoerceNumeric(fr) ==
    Assign(Assign(fr, "HZ",
                  [p \in 1..Len(fr.rows) |-> to_numeric(Column(fr, "HZ")[p])]),
           "VPM", [p \in 1..Len(fr.rows) |-> to_numeric(Column(fr, "VPM")[p])])

\* ---------------------------------------------------------- reconstruction

\* cumcount without the groupby: the rows before p.
cumcount_ungrouped(fr, p) == p - 1

\* Line 62: df.groupby('STARTDATE').cumcount() at position p: the rows
\* before p with p's STARTDATE.
cumcount(fr, p) ==
    Cardinality({q \in 1..(p - 1) :
        fr.rows[q].cells["STARTDATE"] = fr.rows[p].cells["STARTDATE"]})

\* Line 63: df.groupby('STARTDATE')['STARTDATE'].transform('count') at p.
group_count(fr, p) ==
    Cardinality({q \in 1..Len(fr.rows) :
        fr.rows[q].cells["STARTDATE"] = fr.rows[p].cells["STARTDATE"]})

\* OffsetSeconds with the samples counted from 1.
OffsetSecondsFromOne(sample_idx, samples_in_min) ==
    [n |-> (sample_idx + 1) * SecondsPerMinute, d |-> samples_in_min]

\* Line 66: (sample_idx / samples_in_min) * 60, as the exact fraction
\* [n, d] of a second.
OffsetSeconds(sample_idx, samples_in_min) ==
    [n |-> sample_idx * SecondsPerMinute, d |-> samples_in_min]

\* pd.to_timedelta(x, unit='s') of x = n/d seconds, 0 <= x: seconds and
\* nanoseconds, x rounded to the nearest nanosecond (pandas rounds the
\* fraction of the second to 9 decimals).  The nanoseconds of the
\* remainder r/d of a second are r * 10^9 / d, computed without leaving 32
\* bits as r * (10^9 div d) + (r * (10^9 mod d)) / d.
to_timedelta(x) ==
    LET whole == x.n \div x.d
        r == x.n % x.d
        low == r * (NsPerSecond % x.d)
        floorNs == r * (NsPerSecond \div x.d) + (low \div x.d)
        ns == IF 2 * (low % x.d) >= x.d THEN floorNs + 1 ELSE floorNs
    IN  IF ns >= NsPerSecond THEN [s |-> whole + 1, ns |-> ns - NsPerSecond]
        ELSE [s |-> whole, ns |-> ns]

\* datetime + timedelta.
AddTime(t, delta) ==
    IF t.ns + delta.ns >= NsPerSecond
    THEN Stamp(t.s + delta.s + 1, t.ns + delta.ns - NsPerSecond)
    ELSE Stamp(t.s + delta.s, t.ns + delta.ns)

\* Lines 62-67: sample_idx, samples_in_min and PRECISE_TIME.
Reconstruct(fr) ==
    LET a == Assign(fr, "sample_idx", [p \in 1..Len(fr.rows) |-> cumcount(fr, p)])
        b == Assign(a, "samples_in_min",
                    [p \in 1..Len(fr.rows) |-> group_count(a, p)])
    IN  Assign(b, "PRECISE_TIME", [p \in 1..Len(fr.rows) |->
            AddTime(Column(b, "STARTDATE")[p],
                    to_timedelta(OffsetSeconds(Column(b, "sample_idx")[p],
                                               Column(b, "samples_in_min")[p])))])

\* ---------------------------------------------------------------- cleaning

\* a + (b - a) * i / m on floats that are not NaN.
Lerp(a, b, i, m) ==
    Num(a.n * b.d * m + (b.n * a.d - a.n * b.d) * i, a.d * b.d * m)

\* interpolate with the default limit_direction ("forward"): a NaN before the
\* first value stays.
interpolate_forward(v) ==
    LET valid == {q \in 1..Len(v) : ~v[q].nan}
        lo(p) == CHOOSE q \in valid : q < p /\ \A x \in valid : x < p => x <= q
        hi(p) == CHOOSE q \in valid : q > p /\ \A x \in valid : x > p => x >= q
    IN  [p \in 1..Len(v) |->
            IF p \in valid \/ \A q \in valid : q > p THEN v[p]
            ELSE IF \A q \in valid : q < p THEN v[lo(p)]
            ELSE Lerp(v[lo(p)], v[hi(p)], p - lo(p), hi(p) - lo(p))]

\* interpolate with method="pad": a NaN takes the value before it, and the
\* first value when there is none before it.
interpolate_pad(v) ==
    LET valid == {q \in 1..Len(v) : ~v[q].nan}
        lo(p) == CHOOSE q \in valid : q < p /\ \A x \in valid : x < p => x <= q
        hi(p) == CHOOSE q \in valid : q > p /\ \A x \in valid : x > p => x >= q
    IN  [p \in 1..Len(v) |->
            IF p \in valid \/ valid = {} THEN v[p]
            ELSE IF \A q \in valid : q > p THEN v[hi(p)]
            ELSE v[lo(p)]]

\* Series.interpolate(method="linear", limit_direction="both") on the
\* sequence v: the positions are taken as equally spaced; a NaN between two
\* values lies on the line through its nearest values on either side, a NaN
\* before the first or after the last value takes that value, and a sequence
\* with no value is returned as it is.
interpolate(v) ==
    LET valid == {q \in 1..Len(v) : ~v[q].nan}
        lo(p) == CHOOSE q \in valid : q < p /\ \A x \in valid : x < p => x <= q
        hi(p) == CHOOSE q \in valid : q > p /\ \A x \in valid : x > p => x >= q
    IN  [p \in 1..Len(v) |->
            IF p \in valid \/ valid = {} THEN v[p]
            ELSE IF \A q \in valid : q > p THEN v[hi(p)]
            ELSE IF \A q \in valid : q < p THEN v[lo(p)]
            ELSE Lerp(v[lo(p)], v[hi(p)], p - lo(p), hi(p) - lo(p))]

\* Line 70.
InterpolateHz(fr) == Assign(fr, "HZ", interpolate(Column(fr, "HZ")))

\* Line 71.
TagSource(fr, path) ==
    Assign(fr, "SOURCE_FILE", [p \in 1..Len(fr.rows) |-> stem(path)])

\* Line 73: df.drop(columns=[...]).
drop(fr, labels) ==
    [columns |-> fr.columns \ labels,
     rows |-> [p \in 1..Len(fr.rows) |->
                [idx |-> fr.rows[p].idx,
                 cells |-> [c \in fr.columns \ labels |-> fr.rows[p].cells[c]]]]]

\* ------------------------------------------------------------------ loader

\* The frame after lines 40-58, for a frame that passes the checks.
Coerced(raw) == CoerceNumeric(dropna(ParseStartdate(StripColumns(raw))))

\* Lines 32-73, the body of the try: a frame, None, or Raised when a
\* statement raises.
TryBody(f) ==
    LET raw == ReadBySuffix(f)
        df0 == StripColumns(raw)
        df1 == dropna(ParseStartdate(df0))
    IN  IF raw = None \/ raw = Raised THEN raw
        ELSE IF missing(df0) # <<>> THEN None
        ELSE IF Duplicated(raw, "STARTDATE") THEN Raised
        ELSE IF IsEmpty(df1) THEN None
        ELSE IF Duplicated(raw, "HZ") \/ Duplicated(raw, "VPM") THEN Raised
        ELSE drop(TagSource(InterpolateHz(Reconstruct(CoerceNumeric(df1))), f.path),
                  {"sample_idx", "samples_in_min"})

\* _load_one_file without the except clause.
_load_one_file_uncaught(f) == TryBody(f)

\* Lines 30-76: an exception of the body is caught and the file skipped.
_load_one_file(f) ==
    LET result == TryBody(f) IN IF result = Raised THEN None ELSE result

\* --------------------------------------------------------------- discovery

\* Lines 15-22: FILE_PATTERNS, "<lead> Oscillation Data_*<suffix>" (the
\* match is case-sensitive, as on a POSIX file system).
MatchesPattern(path) ==
    path.lead \in {"Bhada", "Bhadla"} /\ path.suffix \in {".xlsx", ".xls", ".csv"}

\* The order of two strings, for the leads, tags and suffixes of the model.
StrRank(str) ==
    CASE str = "Bhada" -> 1 [] str = "Bhadla" -> 2 [] str = "Other" -> 3
      [] str = "1" -> 1 [] str = "2" -> 2
      [] str = ".csv" -> 1 [] str = ".txt" -> 2 [] str = ".xls" -> 3 [] str = ".xlsx" -> 4
      [] OTHER -> 0

\* a < b on paths of the data folder: the order of their names.  The names
\* differ first in the lead, then in the tag, then in the suffix.
PathLess(a, b) ==
    \/ StrRank(a.lead) < StrRank(b.lead)
    \/ a.lead = b.lead /\ StrRank(a.tag) < StrRank(b.tag)
    \/ a.lead = b.lead /\ a.tag = b.tag /\ StrRank(a.suffix) < StrRank(b.suffix)

\* sorted(S) for a set of files with distinct paths.
RECURSIVE SortFiles(_)
SortFiles(S) ==
    IF S = {} THEN <<>>
    ELSE LET first == CHOOSE f \in S : \A g \in S \ {f} : PathLess(f.path, g.path)
         IN  <<first>> \o SortFiles(S \ {first})

\* Lines 24-28.
_discover_files(d) == SortFiles({f \in d : MatchesPattern(f.path)})

\* ------------------------------------------------------------- aggregation

\* Lines 86-88: one iteration of the loop, on the list loaded so far.
AppendLoaded(list, df_tmp) ==
    IF df_tmp # None /\ ~IsEmpty(df_tmp) THEN Append(list, df_tmp) ELSE list

\* fr's rows over the columns cols: an absent cell holds no value.
Reindex(fr, cols) ==
    [p \in 1..Len(fr.rows) |->
        [idx |-> fr.rows[p].idx,
         cells |-> [c \in cols |->
            IF c \in fr.columns THEN fr.rows[p].cells[c] ELSE NoValue]]]

RECURSIVE ConcatRows(_, _)
ConcatRows(list, cols) ==
    IF list = <<>> THEN <<>>
    ELSE Reindex(Head(list), cols) \o ConcatRows(Tail(list), cols)

\* pd.concat(list, ignore_index=True): the rows of the frames one after the
\* other over the union of their columns, under a new RangeIndex.
pd_concat(list) ==
    LET cols == UNION {list[j].columns : j \in 1..Len(list)}
        all == ConcatRows(list, cols)
    IN  [columns |-> cols,
         rows |-> [p \in 1..Len(all) |-> [idx |-> p - 1, cells |-> all[p].cells]]]

\* Line 90.
ReturnValue(list) == IF list # <<>> THEN pd_concat(list) ELSE EmptyFrame

\* -------------------------------------------------------------------- main

\* main without the check of line 168.
MainSeesNothing(d) == FALSE

\* Line 168: if df.empty.
MainSeesEmpty(d) == IsEmpty(d)

\* Line 174: df["SOURCE_FILE"].unique().
all_files(d) == {d.rows[p].cells["SOURCE_FILE"] : p \in 1..Len(d.rows)}

\* Line 177: df[df["SOURCE_FILE"] == selected].
FilterBySource(d, selected) ==
    [columns |-> d.columns,
     rows |-> SelectSeq(d.rows, LAMBDA r : r.cells["SOURCE_FILE"] = selected)]

\* ----------------------------------------------------------------- actions

\* Lines 80-84: load_all_data is entered and the files are discovered.
Discover ==
    /\ pc = "start"
    /\ files' = _discover_files(dir)
    /\ IF files' = <<>>
       THEN df' = EmptyFrame /\ pc' = "check" /\ k' = k
       ELSE df' = df /\ pc' = "loop" /\ k' = 1
    /\ loaded' = <<>>
    /\ UNCHANGED <<dir, selected_file, display_df, colsRead>>

\* Lines 85-88: one file is loaded.  An exception _load_one_file lets
\* through leaves load_all_data and main.
LoadNext ==
    /\ pc = "loop"
    /\ k <= Len(files)
    /\ LET df_tmp == _load_one_file(files[k])
       IN  IF df_tmp = Raised
           THEN pc' = "raised" /\ loaded' = loaded
           ELSE pc' = pc /\ loaded' = AppendLoaded(loaded, df_tmp)
    /\ k' = k + 1
    /\ UNCHANGED <<dir, files, df, selected_file, display_df, colsRead>>

\* Line 90 and line 166: load_all_data returns the Dataset to main.
Return ==
    /\ pc = "loop"
    /\ k > Len(files)
    /\ df' = ReturnValue(loaded)
    /\ pc' = "check"
    /\ UNCHANGED <<dir, files, k, loaded, selected_file, display_df, colsRead>>

\* Lines 168-170: no data; main reports it and returns.
MainEmpty ==
    /\ pc = "check"
    /\ MainSeesEmpty(df)
    /\ pc' = "stopped"
    /\ UNCHANGED <<dir, files, k, loaded, df, selected_file, display_df, colsRead>>

\* Lines 172-177: the sources are listed, one is selected and the view is
\* filtered.  Reading SOURCE_FILE from a frame without it raises KeyError.
MainSelect ==
    /\ pc = "check"
    /\ ~MainSeesEmpty(df)
    /\ colsRead' = colsRead \cup {"SOURCE_FILE"}
    /\ IF "SOURCE_FILE" \notin df.columns
       THEN pc' = "raised" /\ UNCHANGED <<selected_file, display_df>>
       ELSE /\ pc' = "selected"
            /\ \E selected \in all_files(df) :
                /\ selected_file' = selected
                /\ display_df' = FilterBySource(df, selected)
    /\ UNCHANGED <<dir, files, k, loaded, df>>

\* Lines 179-210: the plot (PRECISE_TIME, HZ, VPM) and the statistics (HZ).
MainPlot ==
    /\ pc = "selected"
    /\ colsRead' = colsRead \cup {"PRECISE_TIME", "HZ", "VPM"}
    /\ pc' = "done"
    /\ UNCHANGED <<dir, files, k, loaded, df, selected_file, display_df>>

Next == Discover \/ LoadNext \/ Return \/ MainEmpty \/ MainSelect \/ MainPlot

\* ------------------------------------------------------------------ inputs

\* A file of the data folder.
File(path, content) ==
    [path |-> path, corrupt |-> content.corrupt,
     header |-> content.header, cells |-> content.cells]

Path(lead, tag, suffix) == [lead |-> lead, tag |-> tag, suffix |-> suffix]

\* A row of a file with the three required columns.
Row(startdate, hz, vpm) ==
    ("STARTDATE" :> startdate) @@ ("HZ" :> hz) @@ ("VPM" :> vpm)

Table(rows) ==
    [corrupt |-> FALSE, header |-> {"STARTDATE", "HZ", "VPM"}, cells |-> rows]

\* All sequences over S of length at most n.
SeqUpTo(S, n) == UNION {[1..m -> S] : m \in 0..n}

StartState ==
    /\ pc = "start"
    /\ files = <<>>
    /\ k = 0
    /\ loaded = <<>>
    /\ df = None
    /\ selected_file = ""
    /\ display_df = None
    /\ colsRead = {}

\* The paths a directory of Spec draws from: two files that differ only in
\* the suffix, the other spelling of the lead, and two names no pattern
\* matches.
Paths ==
    {Path("Bhadla", "1", ".csv"), Path("Bhadla", "1", ".xlsx"),
     Path("Bhada", "1", ".csv"), Path("Bhadla", "2", ".txt"),
     Path("Other", "1", ".csv")}

\* A table of one timestamp group with a gap at its end.
TwoSamples ==
    Table(<<Row("01/01/2024 00:00:00", "50.0", "1.5"),
            Row("01/01/2024 00:00:00", "", "abc")>>)

\* A table whose labels carry whitespace, with an extra column.
Padded ==
    [corrupt |-> FALSE, header |-> {" STARTDATE", "HZ ", " VPM ", "NOTE"},
     cells |-> <<(" STARTDATE" :> "02/01/2024 00:00:00") @@ ("HZ " :> "50.3")
                  @@ (" VPM " :> "1.5") @@ ("NOTE" :> "a")>>]

\* Scenario B: no magnitude column.
NoVpm ==
    [corrupt |-> FALSE, header |-> {"STARTDATE", "HZ"},
     cells |-> <<("STARTDATE" :> "01/01/2024 00:00:00") @@ ("HZ" :> "50.0")>>]

NoValidStamp == Table(<<Row("not a date", "50.0", "1.5")>>)

\* A file the reader cannot parse.
Corrupt == [corrupt |-> TRUE, header |-> {}, cells |-> <<>>]

\* Two labels that strip to HZ: pd.to_numeric(df["HZ"]) raises.
TwoHz ==
    [corrupt |-> FALSE, header |-> {"STARTDATE", "HZ", " HZ", "VPM"},
     cells |-> <<("STARTDATE" :> "01/01/2024 00:00:00") @@ ("HZ" :> "50.0")
                  @@ (" HZ" :> "50.3") @@ ("VPM" :> "1.5")>>]

Contents == {TwoSamples, Padded, NoVpm, NoValidStamp, Corrupt, TwoHz, Table(<<>>)}

\* Spec: a directory of at most MaxFiles files.
Init ==
    /\ \E P \in SUBSET Paths :
        /\ Cardinality(P) <= MaxFiles
        /\ \E c \in [P -> Contents] : dir = {File(p, c[p]) : p \in P}
    /\ StartState

Spec == Init /\ [][Next]_vars

OneFile(content) == {File(Path("Bhadla", "1", ".csv"), content)}

\* SpecTime: one file whose rows differ in the timestamp only; the
\* timestamps are 30 and 60 seconds apart, or do not parse.
InitTime ==
    /\ \E rows \in SeqUpTo({Row(t, "50.0", "1.5") : t \in
            {"01/01/2024 00:00:00", "01/01/2024 00:00:30", "01/01/2024 00:01:00",
             "not a date"}}, MaxRowsT) :
        dir = OneFile(Table(rows))
    /\ StartState

SpecTime == InitTime /\ [][Next]_vars

\* SpecClean: one file whose rows differ in the timestamp and in HZ, which
\* may be absent.
InitClean ==
    /\ \E rows \in SeqUpTo({Row(t, hz, "1.5") :
            t \in {"01/01/2024 00:00:00", "01/01/2024 00:01:00"},
            hz \in {"50.0", "50.3", ""}}, MaxRows) :
        dir = OneFile(Table(rows))
    /\ StartState

SpecClean == InitClean /\ [][Next]_vars

\* SpecRows: one file with an extra column (ID, or a column that has the
\* name of one the loader adds) in which every cell may fail to parse.
InitRows ==
    /\ \E extra \in {"ID", "sample_idx"} :
       \E rows \in SeqUpTo({Row(t, hz, vpm) :
            t \in {"01/01/2024 00:00:00", "not a date"},
            hz \in {"50.0", "abc"}, vpm \in {"1.5", "abc"}}, MaxRowsW) :
        dir = OneFile([corrupt |-> FALSE,
                       header |-> {"STARTDATE", "HZ", "VPM", extra},
                       cells |-> [p \in 1..Len(rows) |->
                                    rows[p] @@ (extra :> ToString(p))]])
    /\ StartState

SpecRows == InitRows /\ [][Next]_vars

\* perm puts the rows in another order that keeps the order of the rows of
\* every timestamp group.
KeepsGroupOrder(rows, perm) ==
    /\ \A i, j \in DOMAIN perm : i # j => perm[i] # perm[j]
    /\ \A i, j \in DOMAIN perm :
        (i < j /\ rows[perm[i]]["STARTDATE"] = rows[perm[j]]["STARTDATE"])
            => perm[i] < perm[j]

\* The rows with a column ID that numbers them in the order they have in the
\* first file.
WithId(rows, perm) ==
    [corrupt |-> FALSE, header |-> {"STARTDATE", "HZ", "VPM", "ID"},
     cells |-> [j \in 1..Len(rows) |-> rows[perm[j]] @@ ("ID" :> ToString(perm[j]))]]

\* SpecOrder: two files with the same rows, in two orders that keep every
\* row in its timestamp group and keep the order within each group.
InitOrder ==
    /\ \E rows \in SeqUpTo({Row(t, "50.0", "1.5") : t \in
            {"01/01/2024 00:00:00", "01/01/2024 00:00:30", "01/01/2024 00:01:00"}},
            MaxRowsO) :
       \E perm \in [1..Len(rows) -> 1..Len(rows)] :
        /\ KeepsGroupOrder(rows, perm)
        /\ dir = {File(Path("Bhadla", "1", ".csv"),
                       WithId(rows, [j \in 1..Len(rows) |-> j])),
                  File(Path("Bhadla", "2", ".csv"), WithId(rows, perm))}
    /\ StartState

SpecOrder == InitOrder /\ [][Next]_vars

\* ------------------------------------------------ the loader's output

\* The frames _load_one_file returned so far that hold data.  In the
\* specifications with one file, Out is that file's frame.
Out == loaded[1]

\* The file the loop loaded first, and its table as read.
TheFile == files[1]

\* The only file has just been loaded and has yielded data.
LoadedOne == pc = "loop" /\ Len(files) = 1 /\ k = 2 /\ Len(loaded) = 1

\* The positions of fr in the timestamp group of position p.
Group(fr, p) ==
    {q \in 1..Len(fr.rows) :
        fr.rows[q].cells["STARTDATE"] = fr.rows[p].cells["STARTDATE"]}

\* The rank of position p in its group, in row order (0 for the first).
RankInGroup(fr, p) == Cardinality({q \in Group(fr, p) : q < p})

\* PRECISE_TIME - STARTDATE at position p, as seconds and nanoseconds.
OffsetAt(fr, p) ==
    LET t == fr.rows[p].cells["PRECISE_TIME"]
        c == fr.rows[p].cells["STARTDATE"]
    IN  IF t.ns >= c.ns THEN [s |-> t.s - c.s, ns |-> t.ns - c.ns]
        ELSE [s |-> t.s - c.s - 1, ns |-> t.ns + NsPerSecond - c.ns]

\* The offset off is i/n of a minute to the nanosecond: with r the seconds
\* of 60 * i / n that off.s leaves (times n), off.ns is r * 10^9 / n
\* rounded, | n * off.ns - r * 10^9 | <= n / 2, where 10^9 is taken apart
\* as n * (10^9 div n) + (10^9 mod n) to stay within 32 bits.
IsShareOfMinute(off, i, n) ==
    LET r == i * SecondsPerMinute - off.s * n
        e == n * (off.ns - r * (NsPerSecond \div n)) - r * (NsPerSecond % n)
    IN  /\ 0 <= r
        /\ r < n
        /\ 2 * e <= n
        /\ -2 * e <= n

OffsetLess(a, b) == a.s < b.s \/ (a.s = b.s /\ a.ns < b.ns)

\* C1: in the frame _load_one_file returns, the i-th row (i = 0..k-1, in
\* row order) of a group of k rows that share a STARTDATE has PRECISE_TIME =
\* STARTDATE + (i/k) * 60 seconds (to the nanosecond of the timestamp type);
\* the offsets of a group increase strictly in row order, lie in [0, 60)
\* seconds, and a group of one row has offset 0.
C1_EvenSpread ==
    LoadedOne =>
        \A p \in 1..Len(Out.rows) :
            /\ IsShareOfMinute(OffsetAt(Out, p), RankInGroup(Out, p),
                               Cardinality(Group(Out, p)))
            /\ OffsetAt(Out, p).s >= 0
            /\ OffsetAt(Out, p).s < SecondsPerMinute
            /\ \A q \in Group(Out, p) :
                  q < p => OffsetLess(OffsetAt(Out, q), OffsetAt(Out, p))
            /\ Cardinality(Group(Out, p)) = 1 => OffsetAt(Out, p) = [s |-> 0, ns |-> 0]

\* A file of five rows has been loaded: one row is dropped, one is a group
\* of its own, and the last of the group of the other three is 40 seconds
\* into its minute.
C1_Witness ==
    /\ LoadedOne
    /\ Len(TheFile.cells) = 5
    /\ Len(Out.rows) = 4
    /\ \E p, q \in 1..4 :
        /\ Cardinality(Group(Out, p)) = 1
        /\ Cardinality(Group(Out, q)) = 3
        /\ RankInGroup(Out, q) = 2
        /\ OffsetAt(Out, q) = [s |-> 40, ns |-> 0]

\* C9 as claimed: the PRECISE_TIME of a record is before every later
\* STARTDATE of its file.
C9_BeforeEveryLaterStamp ==
    LoadedOne =>
        \A p, q \in 1..Len(Out.rows) :
            TimeLess(Out.rows[p].cells["STARTDATE"], Out.rows[q].cells["STARTDATE"])
                => TimeLess(Out.rows[p].cells["PRECISE_TIME"],
                            Out.rows[q].cells["STARTDATE"])

\* t + 60 seconds <= u on datetimes.
MinuteApart(t, u) ==
    t.s + SecondsPerMinute < u.s \/ (t.s + SecondsPerMinute = u.s /\ t.ns <= u.ns)

\* C9, amended: the PRECISE_TIME of a record is before every STARTDATE of
\* its file that is at least 60 seconds after the record's own STARTDATE.
C9_BeforeStampsAMinuteLater ==
    LoadedOne =>
        \A p, q \in 1..Len(Out.rows) :
            MinuteApart(Out.rows[p].cells["STARTDATE"], Out.rows[q].cells["STARTDATE"])
                => TimeLess(Out.rows[p].cells["PRECISE_TIME"],
                            Out.rows[q].cells["STARTDATE"])

\* A record spread 45 seconds into its minute, in a file that also has the
\* next minute's timestamp.
C9_Witness ==
    /\ LoadedOne
    /\ \E p, q \in 1..Len(Out.rows) :
        /\ MinuteApart(Out.rows[p].cells["STARTDATE"], Out.rows[q].cells["STARTDATE"])
        /\ OffsetAt(Out, p) = [s |-> 45, ns |-> 0]

\* --------------------------------------------------------------- cleaning

\* The cells that parse, by what they are rather than by the parser.
ValidDate(cell) ==
    cell \in {"01/01/2024 00:00:00", "01/01/2024 00:00:30",
              "01/01/2024 00:01:00", "02/01/2024 00:00:00"}

ValidNumber(cell) == cell \in {"50.0", "50.2", "50.3", "1.5"}

\* File f is file-fatal, by what the file is: a suffix no reader takes, a
\* file the reader fails on, a required column that is absent or (an
\* exception) there twice, or no row with a timestamp that parses.
FileFatal(f) ==
    \/ f.path.suffix \notin {".csv", ".xls", ".xlsx", ".CSV", ".XLSX"}
    \/ f.corrupt
    \/ \E j \in 1..Len(required) :
          Cardinality({r \in f.header : strip(r) = required[j]}) # 1
    \/ \A p \in 1..Len(f.cells) :
          \A r \in f.header : strip(r) = "STARTDATE" => ~ValidDate(f.cells[p][r])

\* The table of file f as read, and after the type coercion of lines 40-58.
AsRead(f) == read_table(f)

AfterCoercion(f) == Coerced(read_table(f))

NoMissingHz(fr) == \A p \in 1..Len(fr.rows) : ~fr.rows[p].cells["HZ"].nan

\* A row of f with a timestamp that parses has an HZ that parses.
HasKnownHz(f) ==
    \E p \in 1..Len(f.cells) :
        ValidDate(f.cells[p]["STARTDATE"]) /\ ValidNumber(f.cells[p]["HZ"])

\* C2 as claimed: no record of a non-empty output of _load_one_file, and no
\* record of the Dataset, has a missing HZ, whatever HZ values were missing.
C2_NoMissingHz ==
    /\ LoadedOne => NoMissingHz(Out)
    /\ pc \in {"check", "selected", "done"} /\ ~IsEmpty(df) => NoMissingHz(df)

\* C2, amended: no record of the output of _load_one_file, and no record of
\* the Dataset, has a missing HZ, provided at least one retained row of the
\* file (of every file that yields data) has an HZ value that parses.
C2_NoMissingHzGivenOneValue ==
    /\ LoadedOne /\ HasKnownHz(TheFile) => NoMissingHz(Out)
    /\ pc \in {"check", "selected", "done"} /\ ~IsEmpty(df)
       /\ (\A j \in 1..Len(files) : FileFatal(files[j]) \/ HasKnownHz(files[j]))
         => NoMissingHz(df)

\* A file of three retained rows of which only the last has an HZ that
\* parses has been loaded, and the Dataset built.
C2_Witness ==
    /\ pc = "check"
    /\ Len(loaded) = 1
    /\ Len(df.rows) = 3
    /\ AfterCoercion(TheFile).rows[1].cells["HZ"].nan
    /\ AfterCoercion(TheFile).rows[2].cells["HZ"].nan
    /\ ~AfterCoercion(TheFile).rows[3].cells["HZ"].nan

\* (v - a) * m = (b - a) * i on floats: v is i steps of m from a to b.
IsStep(v, a, b, i, m) ==
    (v.n * a.d - a.n * v.d) * b.d * m = (b.n * a.d - a.n * b.d) * v.d * i

\* after fills the gaps of before linearly: a missing value between two
\* values is evenly stepped between its nearest values on either side, a
\* missing value with values on one side only takes the nearest.
IsLinearFill(before, after) ==
    LET known == {q \in 1..Len(before) : ~before[q].nan}
    IN  \A p \in (1..Len(before)) \ known :
            LET left == {q \in known : q < p}
                right == {q \in known : q > p}
                lo == CHOOSE q \in left : \A x \in left : x <= q
                hi == CHOOSE q \in right : \A x \in right : x >= q
            IN  /\ left # {} /\ right # {} =>
                    /\ ~after[p].nan
                    /\ IsStep(after[p], before[lo], before[hi], p - lo, hi - lo)
                /\ left # {} /\ right = {} => after[p] = before[lo]
                /\ left = {} /\ right # {} => after[p] = before[hi]

\* The positions of fr in the order of PRECISE_TIME (no two are equal).
ByPreciseTime(fr) ==
    [j \in 1..Len(fr.rows) |->
        CHOOSE p \in 1..Len(fr.rows) :
            Cardinality({q \in 1..Len(fr.rows) :
                TimeLess(fr.rows[q].cells["PRECISE_TIME"],
                         fr.rows[p].cells["PRECISE_TIME"])}) = j - 1]

\* C3 as claimed: the missing HZ values are filled linearly over the records
\* in the order of PRECISE_TIME.
C3_FilledInTimeOrder ==
    LoadedOne =>
        LET order == ByPreciseTime(Out)
            before == AfterCoercion(TheFile)
        IN  IsLinearFill([j \in 1..Len(order) |-> before.rows[order[j]].cells["HZ"]],
                         [j \in 1..Len(order) |-> Out.rows[order[j]].cells["HZ"]])

\* C3, amended: the missing HZ values are filled linearly over the records
\* in the row order of the file.
C3_FilledInRowOrder ==
    LoadedOne =>
        IsLinearFill(Column(AfterCoercion(TheFile), "HZ"), Column(Out, "HZ"))

\* Scenario C, [50.0, missing, missing, 50.3] -> [50.0, 50.1, 50.2, 50.3],
\* in a file whose first row is a minute later than the others.
C3_Witness ==
    /\ LoadedOne
    /\ Column(AsRead(TheFile), "HZ") = <<"50.0", "", "", "50.3">>
    /\ Column(AsRead(TheFile), "STARTDATE")[1] = "01/01/2024 00:01:00"
    /\ Column(AsRead(TheFile), "STARTDATE")[2] = "01/01/2024 00:00:00"
    /\ Column(Out, "HZ") = <<Num(50, 1), Num(501, 10), Num(251, 5), Num(503, 10)>>

\* -------------------------------------------------------------------- rows

\* The file has been through the loop, with or without yielding data.
Processed == Len(files) = 1 /\ k = 2

\* The index labels of the rows of f whose timestamp parses.
ValidLabels(f) == {p - 1 : p \in {q \in 1..Len(f.cells) : ValidDate(f.cells[q]["STARTDATE"])}}

\* C5: in a file with the three required columns a row is retained iff its
\* timestamp parses, the file is skipped only when no row's does, and an HZ
\* or VPM that does not parse becomes a missing value in its row.
C5_RowLevelFailures ==
    Processed =>
        /\ loaded = <<>> <=> ValidLabels(TheFile) = {}
        /\ loaded # <<>> =>
            /\ Len(Out.rows) = Cardinality(ValidLabels(TheFile))
            /\ \A p \in 1..Len(Out.rows) :
                /\ Out.rows[p].idx \in ValidLabels(TheFile)
                /\ \A q \in 1..(p - 1) : Out.rows[q].idx < Out.rows[p].idx
                /\ Out.rows[p].cells["VPM"].nan
                     <=> ~ValidNumber(TheFile.cells[Out.rows[p].idx + 1]["VPM"])
                /\ AfterCoercion(TheFile).rows[p].cells["HZ"].nan
                     <=> ~ValidNumber(TheFile.cells[Out.rows[p].idx + 1]["HZ"])

\* A file of three rows has been loaded: the timestamp of the first does not
\* parse and the row is gone; the HZ and the VPM of the second do not parse
\* and the row is there.
C5_Witness ==
    /\ Processed
    /\ Len(TheFile.cells) = 3
    /\ ~ValidDate(TheFile.cells[1]["STARTDATE"])
    /\ TheFile.cells[2]["HZ"] = "abc"
    /\ TheFile.cells[2]["VPM"] = "abc"
    /\ Len(loaded) = 1
    /\ Len(Out.rows) = 2
    /\ Out.rows[1].idx = 1
    /\ Out.rows[1].cells["VPM"].nan

\* Row p of frame after is row p of frame before in the columns cols, but
\* for a missing HZ.
SameBut(before, after, cols) ==
    /\ Len(after.rows) = Len(before.rows)
    /\ \A p \in 1..Len(before.rows) :
        /\ after.rows[p].idx = before.rows[p].idx
        /\ \A c \in cols :
            /\ c \in after.columns
            /\ (c = "HZ" /\ before.rows[p].cells["HZ"].nan)
                 \/ after.rows[p].cells[c] = before.rows[p].cells[c]

\* C10: _load_one_file returns one record per retained row, in row order,
\* and every value of it but a missing HZ (the non-missing HZ, the VPM, the
\* STARTDATE and every other column of the file) is as after type coercion.
C10_Frame ==
    Processed /\ loaded # <<>> =>
        SameBut(AfterCoercion(TheFile), Out, AfterCoercion(TheFile).columns)

\* The columns the loader writes besides HZ.
LoaderColumns == {"sample_idx", "samples_in_min", "PRECISE_TIME", "SOURCE_FILE"}

\* The part of C10 that holds: the same, for the columns of the file that
\* do not have the name of a column the loader writes.
C10_FrameOfOtherColumns ==
    Processed /\ loaded # <<>> =>
        SameBut(AfterCoercion(TheFile), Out,
                AfterCoercion(TheFile).columns \ LoaderColumns)

\* ------------------------------------------------------------------- order

\* C7: when the rows of a file are put in another order that keeps every row
\* in its timestamp group and keeps the order within each group, every row
\* (told by its ID) gets the same PRECISE_TIME.
C7_OrderInvariant ==
    Len(files) = 2 /\ k = 3 /\ Len(loaded) = 2 =>
        \A p \in 1..Len(loaded[1].rows) : \A q \in 1..Len(loaded[2].rows) :
            loaded[1].rows[p].cells["ID"] = loaded[2].rows[q].cells["ID"]
                => loaded[1].rows[p].cells["PRECISE_TIME"]
                     = loaded[2].rows[q].cells["PRECISE_TIME"]

\* Both orders have been loaded; in the second the two rows of a group are
\* no longer next to each other and the second of them is 30 seconds into
\* its minute.
C7_Witness ==
    /\ Len(files) = 2 /\ k = 3 /\ Len(loaded) = 2
    /\ Len(loaded[2].rows) >= 3
    /\ loaded[2].rows[1].cells["ID"] = "2"
    /\ loaded[2].rows[2].cells["ID"] = "1"
    /\ loaded[2].rows[3].cells["ID"] = "3"
    /\ loaded[2].rows[1].cells["STARTDATE"] = loaded[2].rows[3].cells["STARTDATE"]
    /\ OffsetAt(loaded[2], 3) = [s |-> 30, ns |-> 0]

\* --------------------------------------------------------------- directory

\* The Dataset of the directory that holds file f alone.
Alone(f) == ReturnValue(AppendLoaded(<<>>, _load_one_file(f)))

\* The cells of the records of frame fr, over the columns cols.
Records(fr, cols) ==
    LET rows == Reindex(fr, cols) IN [p \in 1..Len(rows) |-> rows[p].cells]

\* The records the files of list yield one by one, each loaded alone, but
\* for the file-fatal ones.
RECURSIVE RecordsOfEach(_, _)
RecordsOfEach(list, cols) ==
    IF list = <<>> THEN <<>>
    ELSE (IF FileFatal(Head(list)) THEN <<>> ELSE Records(Alone(Head(list)), cols))
         \o RecordsOfEach(Tail(list), cols)

Returned == pc \in {"check", "stopped", "selected", "done"}

\* C4: load_all_data never raises, a file-fatal file contributes no record,
\* and the Dataset holds exactly the records each other file yields when
\* loaded alone, whatever bad files there are and wherever they stand.
C4_FailuresAreLocal ==
    /\ pc # "raised"
    /\ Returned =>
        /\ \A j \in 1..Len(files) : FileFatal(files[j]) => IsEmpty(Alone(files[j]))
        /\ Records(df, df.columns) = RecordsOfEach(files, df.columns)

\* load_all_data has returned the records of one file that stood between a
\* file that cannot be parsed and a file without the VPM column.
C4_Witness ==
    /\ pc = "check"
    /\ Len(files) = 3
    /\ files[1].corrupt
    /\ ~FileFatal(files[2])
    /\ "VPM" \notin files[3].header /\ " VPM " \notin files[3].header
    /\ Len(df.rows) = Len(files[2].cells)
    /\ Len(df.rows) > 0

\* Every discovered file is skipped or yields no row (or there is no file).
NoFileYieldsData == \A j \in 1..Len(files) : FileFatal(files[j])

\* C6: when no file is discovered, or every discovered file is skipped or
\* yields no rows, load_all_data returns the empty Dataset without raising,
\* and main stops before it reads any column of it.
C6_EmptyIsTerminal ==
    /\ pc # "raised"
    /\ Returned /\ NoFileYieldsData =>
        /\ df = EmptyFrame
        /\ pc \in {"check", "stopped"}
        /\ colsRead = {}

\* main has stopped on the empty Dataset of a directory with two files,
\* both skipped.
C6_Witness ==
    /\ pc = "stopped"
    /\ Len(files) = 2
    /\ df = EmptyFrame
    /\ colsRead = {}

\* C8: the view filtered by one SourceTag holds the records of exactly one
\* source file.
C8_ViewIsOneFile ==
    pc = "selected" =>
        \E j \in 1..Len(files) :
            Records(display_df, df.columns) = Records(Alone(files[j]), df.columns)
====
